---- MODULE Spec2Model ----
(***************************************************************************)
(* Model of Semantic-Kernel-SDK/code.py: three plugin functions, the       *)
(* agents and handoff relationships declared by get_agents, the streaming  *)
(* console callback, the human input function and main, which wires them   *)
(* into a HandoffOrchestration and drives one session on an                *)
(* InProcessRuntime.  The orchestration engine itself is the imported SDK; *)
(* its session state machine is modelled from section 4.2 / 4.3 of the     *)
(* design notes and kept apart from the definitions taken from code.py.    *)
(*                                                                         *)
(* Strings are sequences of atoms: a literal fragment of an f-string is    *)
(* one atom, an input string is a sequence of one-character atoms, and     *)
(* f-string formatting and print are concatenation (\o).                   *)
(***************************************************************************)
EXTENDS Integers, Sequences, FiniteSets, TLC

VARIABLES
    pc,              \* position of main (code.py 179-213)
    failed,          \* TRUE once an exception propagates out of main's body
    creds,           \* DefaultAzureCredential context: "none" | "open" | "closed"
    project_client,  \* AzureAIAgent.create_client context: "none" | "open" | "closed"
    agents,          \* main's local `agents` (list of members)
    handoffs,        \* main's local `handoffs` (set of <<source, target>> edges)
    runtime,         \* InProcessRuntime: "none" | "started" | "stopped"
    value,           \* main's local `value` (<<>> before line 209)
    trace,           \* the steps main has performed, in order
    status,          \* session: "none" | "running" | "completed" | "failed"
    active,          \* name of the session's active agent ("none" before invoke)
    inTurn,          \* TRUE while an agent turn is in progress
    task_summary,    \* summary stored by complete_task
    activeTrace,     \* every value `active` has taken, in order
    calls,           \* function calls executed by the runtime, in order
    userInputs,      \* number of human_response_function calls
    is_new_message,  \* the module-level flag of code.py line 139
    stdout,          \* the print calls executed: [line, text] records
    chunkLog         \* the calls made to streaming_agent_response_callback

mainVars == <<pc, failed, creds, project_client, agents, handoffs, runtime, value, trace>>
sessionVars == <<status, active, inTurn, task_summary, activeTrace, calls, userInputs>>
sinkVars == <<is_new_message, stdout, chunkLog>>
vars == <<mainVars, sessionVars, sinkVars>>

----------------------------------------------------------------------------
(* Bounds of the model *)

MaxEvents == 3    \* session events (chunks, function calls, human inputs) before completion

----------------------------------------------------------------------------
(* Strings and the console *)

NL == <<"\n">>

\* print(s, end=e) writes s followed by e
print(s, e) == s \o e

\* one executed print statement: the source line of the statement and what it wrote
Written(line, text) == [line |-> line, text |-> text]

RECURSIVE Flatten(_)
\* the console text produced by a sequence of print calls
Flatten(recs) ==
    IF recs = <<>> THEN <<>> ELSE Head(recs).text \o Flatten(Tail(recs))

----------------------------------------------------------------------------
(* Plugins (code.py 20-44): each returns what it prints and what it returns *)

OrderIds == { <<"1", "2", "3">>, <<"3", "2", "1">> }
Reasons == { <<"Broken item">>, <<"late">> }

\* variant: the answer depends on earlier calls
check_order_status_stateful(order_id) ==
    [ out |-> <<>>,
      ret |-> IF calls = <<>>
              THEN <<"Order ">> \o order_id \o <<" is shipped and will arrive in 2-3 days.">>
              ELSE <<"Order ">> \o order_id \o <<" has arrived.">> ]

check_order_status(order_id) ==
    [ out |-> <<>>,
      ret |-> <<"Order ">> \o order_id \o <<" is shipped and will arrive in 2-3 days.">> ]

\* variant: no log line
process_refund_silent(order_id, reason) ==
    [ out |-> <<>>,
      ret |-> <<"Refund for order ">> \o order_id \o <<" has been processed successfully.">> ]

process_refund(order_id, reason) ==
    [ out |-> << Written(34, print(<<"Processing refund for order ">> \o order_id
                                     \o <<" due to: ">> \o reason, NL)) >>,
      ret |-> <<"Refund for order ">> \o order_id \o <<" has been processed successfully.">> ]

process_return(order_id, reason) ==
    [ out |-> << Written(43, print(<<"Processing return for order ">> \o order_id
                                     \o <<" due to: ">> \o reason, NL)) >>,
      ret |-> <<"Return for order ">> \o order_id \o <<" has been processed successfully.">> ]

\* the kernel functions a plugin class exposes
OrderStatusPlugin == {"check_order_status"}
OrderRefundPlugin == {"process_refund"}
OrderReturnPlugin == {"process_return"}

\* argument tuples a kernel function accepts
ArgsOf(fn) ==
    IF fn = "check_order_status"
    THEN { <<o>> : o \in OrderIds }
    ELSE { <<o, r>> : o \in OrderIds, r \in Reasons }

\* dispatch of a function call to the plugin method
Invoke(fn, args) ==
    CASE fn = "check_order_status" -> check_order_status(args[1])
      [] fn = "process_refund" -> process_refund(args[1], args[2])
      [] fn = "process_return" -> process_return(args[1], args[2])

----------------------------------------------------------------------------
(* get_agents (code.py 47-135) *)

\* project_client.agents.create_agent(name=...): the definition carries the name
create_agent(name) == [name |-> name]

\* AzureAIAgent(client, definition, plugins): name is the definition's name
AzureAIAgent(definition, plugins) == [name |-> definition.name, plugins |-> plugins]

\* OrchestrationHandoffs(): no relationship yet; descriptions are not modelled
OrchestrationHandoffs == {}

add(h, source_agent, target_agent) == h \cup { <<source_agent, target_agent>> }

add_many(h, source_agent, target_agents) ==
    h \cup { <<source_agent, t>> : t \in target_agents }

\* variants of the handoff relationships: a target that is no member, a source
\* that is no member, an edge between two specialists
get_agents_unregistered_target ==
    LET support_agent == AzureAIAgent(create_agent("SupportAgent"), {})
        order_status_agent == AzureAIAgent(create_agent("OrderStatusAgent"), OrderStatusPlugin)
        refund_agent == AzureAIAgent(create_agent("RefundAgent"), OrderRefundPlugin)
        order_return_agent == AzureAIAgent(create_agent("OrderReturnAgent"), OrderReturnPlugin)
        h1 == add_many(OrchestrationHandoffs, support_agent.name,
                       { refund_agent.name, order_status_agent.name,
                         order_return_agent.name, "TriageAgent" })
        h2 == add(h1, refund_agent.name, support_agent.name)
        h3 == add(h2, order_status_agent.name, support_agent.name)
        h4 == add(h3, order_return_agent.name, support_agent.name)
    IN  [ members |-> << support_agent, refund_agent, order_status_agent, order_return_agent >>,
          handoffs |-> h4 ]

get_agents_unregistered_source ==
    LET support_agent == AzureAIAgent(create_agent("SupportAgent"), {})
        order_status_agent == AzureAIAgent(create_agent("OrderStatusAgent"), OrderStatusPlugin)
        refund_agent == AzureAIAgent(create_agent("RefundAgent"), OrderRefundPlugin)
        order_return_agent == AzureAIAgent(create_agent("OrderReturnAgent"), OrderReturnPlugin)
        h1 == add_many(OrchestrationHandoffs, support_agent.name,
                       { refund_agent.name, order_status_agent.name, order_return_agent.name })
        h2 == add(h1, refund_agent.name, support_agent.name)
        h3 == add(h2, order_status_agent.name, support_agent.name)
        h4 == add(h3, "TriageAgent", support_agent.name)
    IN  [ members |-> << support_agent, refund_agent, order_status_agent, order_return_agent >>,
          handoffs |-> h4 ]

get_agents_specialist_edge ==
    LET support_agent == AzureAIAgent(create_agent("SupportAgent"), {})
        order_status_agent == AzureAIAgent(create_agent("OrderStatusAgent"), OrderStatusPlugin)
        refund_agent == AzureAIAgent(create_agent("RefundAgent"), OrderRefundPlugin)
        order_return_agent == AzureAIAgent(create_agent("OrderReturnAgent"), OrderReturnPlugin)
        h1 == add_many(OrchestrationHandoffs, support_agent.name,
                       { refund_agent.name, order_status_agent.name, order_return_agent.name })
        h2 == add(h1, refund_agent.name, order_status_agent.name)
        h3 == add(h2, order_status_agent.name, support_agent.name)
        h4 == add(h3, order_return_agent.name, support_agent.name)
    IN  [ members |-> << support_agent, refund_agent, order_status_agent, order_return_agent >>,
          handoffs |-> h4 ]

get_agents ==
    LET support_agent == AzureAIAgent(create_agent("SupportAgent"), {})
        order_status_agent == AzureAIAgent(create_agent("OrderStatusAgent"), OrderStatusPlugin)
        refund_agent == AzureAIAgent(create_agent("RefundAgent"), OrderRefundPlugin)
        order_return_agent == AzureAIAgent(create_agent("OrderReturnAgent"), OrderReturnPlugin)
        h1 == add_many(OrchestrationHandoffs, support_agent.name,
                       { refund_agent.name, order_status_agent.name, order_return_agent.name })
        h2 == add(h1, refund_agent.name, support_agent.name)
        h3 == add(h2, order_status_agent.name, support_agent.name)
        h4 == add(h3, order_return_agent.name, support_agent.name)
    IN  [ members |-> << support_agent, refund_agent, order_status_agent, order_return_agent >>,
          handoffs |-> h4 ]

\* names of the members handed to HandoffOrchestration (the agent registry)
Registry == { agents[i].name : i \in DOMAIN agents }

\* the member with a given name
AgentNamed(n) == CHOOSE a \in { agents[i] : i \in DOMAIN agents } : a.name = n

----------------------------------------------------------------------------
(* streaming_agent_response_callback (code.py 138-170) *)

FunctionCallContent(name, arguments) ==
    [type |-> "FunctionCallContent", name |-> name, payload |-> arguments]

FunctionResultContent(name, result) ==
    [type |-> "FunctionResultContent", name |-> name, payload |-> result]

RECURSIVE PrintItems(_)
\* the loop of lines 162-166
PrintItems(items) ==
    IF items = <<>> THEN <<>>
    ELSE LET item == Head(items)
             c == IF item.type = "FunctionCallContent"
                  THEN << Written(164, print(<<"Calling '">> \o item.name
                              \o <<"' with arguments '">> \o item.payload \o <<"'">>, <<>>)) >>
                  ELSE <<>>
             r == IF item.type = "FunctionResultContent"
                  THEN << Written(166, print(<<"Result from '">> \o item.name
                              \o <<"' is '">> \o item.payload \o <<"'">>, <<>>)) >>
                  ELSE <<>>
         IN  c \o r \o PrintItems(Tail(items))

\* variant: line 170 missing, the flag is never set again
callback_flag_never_reset(flag, message, is_final) ==
    LET prefix == IF flag
                  THEN << Written(158, print(<<message.name>> \o <<": ">>, <<>>)) >>
                  ELSE <<>>
        flag1 == IF flag THEN FALSE ELSE flag
        body == << Written(160, print(message.content, <<>>)) >>
        items == PrintItems(message.items)
        term == IF is_final THEN << Written(169, print(<<>>, NL)) >> ELSE <<>>
    IN  [ is_new_message |-> flag1, out |-> prefix \o body \o items \o term ]

\* variant: line 160 without end="", every chunk ends its line
callback_print_default_end(flag, message, is_final) ==
    LET prefix == IF flag
                  THEN << Written(158, print(<<message.name>> \o <<": ">>, <<>>)) >>
                  ELSE <<>>
        flag1 == IF flag THEN FALSE ELSE flag
        body == << Written(160, print(message.content, NL)) >>
        items == PrintItems(message.items)
        term == IF is_final THEN << Written(169, print(<<>>, NL)) >> ELSE <<>>
        flag2 == IF is_final THEN TRUE ELSE flag1
    IN  [ is_new_message |-> flag2, out |-> prefix \o body \o items \o term ]

\* the callback applied with the global flag at `flag`: the new flag and the prints
streaming_agent_response_callback(flag, message, is_final) ==
    LET prefix == IF flag
                  THEN << Written(158, print(<<message.name>> \o <<": ">>, <<>>)) >>
                  ELSE <<>>
        flag1 == IF flag THEN FALSE ELSE flag
        body == << Written(160, print(message.content, <<>>)) >>
        items == PrintItems(message.items)
        term == IF is_final THEN << Written(169, print(<<>>, NL)) >> ELSE <<>>
        flag2 == IF is_final THEN TRUE ELSE flag1
    IN  [ is_new_message |-> flag2, out |-> prefix \o body \o items \o term ]

----------------------------------------------------------------------------
(* Initial state: the module has been imported, main has not started *)

Init ==
    /\ pc = "start"
    /\ failed = FALSE
    /\ creds = "none"
    /\ project_client = "none"
    /\ agents = <<>>
    /\ handoffs = {}
    /\ runtime = "none"
    /\ value = <<>>
    /\ trace = <<>>
    /\ status = "none"
    /\ active = "none"
    /\ inTurn = FALSE
    /\ task_summary = <<>>
    /\ activeTrace = <<>>
    /\ calls = <<>>
    /\ userInputs = 0
    /\ is_new_message = TRUE
    /\ stdout = <<>>
    /\ chunkLog = <<>>

----------------------------------------------------------------------------
(* main (code.py 179-213) *)

\* line 184: async with DefaultAzureCredential() as creds
EnterCredential ==
    /\ pc = "start"
    /\ creds' = "open"
    /\ trace' = Append(trace, "credential")
    /\ pc' = "client"
    /\ UNCHANGED <<failed, project_client, agents, handoffs, runtime, value>>
    /\ UNCHANGED <<sessionVars, sinkVars>>

\* line 185: AzureAIAgent.create_client(...) as project_client
EnterClient ==
    /\ pc = "client"
    /\ project_client' = "open"
    /\ trace' = Append(trace, "client")
    /\ pc' = "get_agents"
    /\ UNCHANGED <<failed, creds, agents, handoffs, runtime, value>>
    /\ UNCHANGED <<sessionVars, sinkVars>>

\* lines 188-196: agents, handoffs = await get_agents(...); HandoffOrchestration(...)
GetAgents ==
    /\ pc = "get_agents"
    /\ agents' = get_agents.members
    /\ handoffs' = get_agents.handoffs
    /\ trace' = Append(trace, "get_agents")
    /\ pc' = "runtime_start"
    /\ UNCHANGED <<failed, creds, project_client, runtime, value>>
    /\ UNCHANGED <<sessionVars, sinkVars>>

\* line 188: one of the awaited create_agent calls raises, or main is cancelled there
GetAgentsRaises ==
    /\ pc = "get_agents"
    /\ failed' = TRUE
    /\ pc' = "exit_client"
    /\ UNCHANGED <<creds, project_client, agents, handoffs, runtime, value, trace>>
    /\ UNCHANGED <<sessionVars, sinkVars>>

\* lines 199-200: runtime = InProcessRuntime(); runtime.start()
RuntimeStart ==
    /\ pc = "runtime_start"
    /\ runtime' = "started"
    /\ trace' = Append(trace, "runtime.start")
    /\ pc' = "invoke"
    /\ UNCHANGED <<failed, creds, project_client, agents, handoffs, value>>
    /\ UNCHANGED <<sessionVars, sinkVars>>

\* lines 203-206: await handoff_orchestration.invoke(task, runtime); the session
\* starts with the first member as the active agent
InvokeOrchestration ==
    /\ pc = "invoke"
    /\ status' = "running"
    /\ active' = agents[1].name
    /\ activeTrace' = << agents[1].name >>
    /\ inTurn' = TRUE
    /\ trace' = Append(trace, "invoke")
    /\ pc' = "get"
    /\ UNCHANGED <<failed, creds, project_client, agents, handoffs, runtime, value>>
    /\ UNCHANGED <<task_summary, calls, userInputs, sinkVars>>

\* lines 203-206: the awaited invoke raises or is cancelled
InvokeRaises ==
    /\ pc = "invoke"
    /\ failed' = TRUE
    /\ pc' = "exit_client"
    /\ UNCHANGED <<creds, project_client, agents, handoffs, runtime, value, trace>>
    /\ UNCHANGED <<sessionVars, sinkVars>>

\* line 209: value = await orchestration_result.get()
GetResult ==
    /\ pc = "get"
    /\ status = "completed"
    /\ value' = task_summary
    /\ trace' = Append(trace, "get")
    /\ pc' = "print"
    /\ UNCHANGED <<failed, creds, project_client, agents, handoffs, runtime>>
    /\ UNCHANGED <<sessionVars, sinkVars>>

\* line 209: the awaited get raises (the session failed) or main is cancelled there
GetResultRaises ==
    /\ pc = "get"
    /\ status \in {"running", "failed"}
    /\ failed' = TRUE
    /\ pc' = "exit_client"
    /\ UNCHANGED <<creds, project_client, agents, handoffs, runtime, value, trace>>
    /\ UNCHANGED <<sessionVars, sinkVars>>

\* variant: line 210 prints the task instead of the value
PrintTask ==
    /\ pc = "print"
    /\ stdout' = Append(stdout, Written(210,
                    print(<<"Greet the customer who is reaching out for support.">>, NL)))
    /\ trace' = Append(trace, "print")
    /\ pc' = "stop_when_idle"
    /\ UNCHANGED <<failed, creds, project_client, agents, handoffs, runtime, value>>
    /\ UNCHANGED <<sessionVars, is_new_message, chunkLog>>

\* line 210: print(value)
PrintValue ==
    /\ pc = "print"
    /\ stdout' = Append(stdout, Written(210, print(value, NL)))
    /\ trace' = Append(trace, "print")
    /\ pc' = "stop_when_idle"
    /\ UNCHANGED <<failed, creds, project_client, agents, handoffs, runtime, value>>
    /\ UNCHANGED <<sessionVars, is_new_message, chunkLog>>

\* variant: line 213 moved before line 209
StopBeforeResult ==
    /\ pc = "get"
    /\ runtime = "started"
    /\ runtime' = "stopped"
    /\ trace' = Append(trace, "stop_when_idle")
    /\ pc' = "get"
    /\ UNCHANGED <<failed, creds, project_client, agents, handoffs, value>>
    /\ UNCHANGED <<sessionVars, sinkVars>>

\* line 213: await runtime.stop_when_idle(): returns once no agent turn is in progress
StopWhenIdle ==
    /\ pc = "stop_when_idle"
    /\ ~inTurn
    /\ runtime' = "stopped"
    /\ trace' = Append(trace, "stop_when_idle")
    /\ pc' = "exit_client"
    /\ UNCHANGED <<failed, creds, project_client, agents, handoffs, value>>
    /\ UNCHANGED <<sessionVars, sinkVars>>

\* leaving the async with block (line 183-186), normally or with an exception:
\* the contexts exit in reverse order of entry
ExitClient ==
    /\ pc = "exit_client"
    /\ project_client' = "closed"
    /\ trace' = Append(trace, "client.close")
    /\ pc' = "exit_creds"
    /\ UNCHANGED <<failed, creds, agents, handoffs, runtime, value>>
    /\ UNCHANGED <<sessionVars, sinkVars>>

ExitCredential ==
    /\ pc = "exit_creds"
    /\ creds' = "closed"
    /\ trace' = Append(trace, "credential.close")
    /\ pc' = "done"
    /\ UNCHANGED <<failed, project_client, agents, handoffs, runtime, value>>
    /\ UNCHANGED <<sessionVars, sinkVars>>

Main ==
    \/ EnterCredential
    \/ EnterClient
    \/ GetAgents
    \/ GetAgentsRaises
    \/ RuntimeStart
    \/ InvokeOrchestration
    \/ InvokeRaises
    \/ GetResult
    \/ GetResultRaises
    \/ PrintValue
    \/ StopWhenIdle
    \/ ExitClient
    \/ ExitCredential

----------------------------------------------------------------------------
(* The session run by the HandoffOrchestration on the runtime.  The engine  *)
(* is the imported SDK; these steps follow sections 4.2 and 4.3 of the     *)
(* design notes.  They run while main is suspended at line 209.            *)

SessionRunning == pc = "get" /\ status = "running"

\* functions the active agent's plugins expose (lines 78, 91, 104)
PluginsOf(n) == UNION { agents[i].plugins : i \in { j \in DOMAIN agents : agents[j].name = n } }

\* session events so far: function calls, callback invocations, human inputs
Events == Len(calls) + Len(chunkLog) + userInputs

\* names an agent may ask to be transferred to: the members and a name that
\* is not a member (the sample output's TriageAgent)
TransferTargets == {"SupportAgent", "RefundAgent", "OrderStatusAgent", "OrderReturnAgent", "TriageAgent"}

Summaries == { <<"d", "o", "n", "e">>, <<"Processed return for order ID 321 due to a broken item.">> }

\* streamed text chunks and complete function-call / function-result messages
Contents == { <<>>, <<"a">>, <<"b">> }
ItemLists ==
    { << FunctionCallContent(<<"Handoff-complete_task">>, <<"{}">>) >>,
      << FunctionCallContent(<<"OrderStatusPlugin-check_order_status">>, <<"{}">>),
         FunctionResultContent(<<"OrderStatusPlugin-check_order_status">>, <<"None">>) >> }
Messages(name) ==
    { [name |-> name, content |-> c, items |-> <<>>] : c \in Contents }
    \cup { [name |-> name, content |-> <<>>, items |-> it] : it \in ItemLists }

\* one call streaming_agent_response_callback(message, is_final)
Deliver(message, is_final) ==
    LET r == streaming_agent_response_callback(is_new_message, message, is_final)
    IN  /\ is_new_message' = r.is_new_message
        /\ stdout' = stdout \o r.out
        /\ chunkLog' = Append(chunkLog, [message |-> message, is_final |-> is_final])

\* one call of a kernel function, on behalf of `agent`
Execute(agent, fn, args) ==
    LET r == Invoke(fn, args)
    IN  /\ stdout' = stdout \o r.out
        /\ calls' = Append(calls, [agent |-> agent, fn |-> fn, args |-> args, ret |-> r.ret])

\* the runtime delivers one chunk of the active agent's response to the callback;
\* function-call and function-result messages arrive complete
AgentStreams ==
    /\ SessionRunning
    /\ inTurn
    /\ Events < MaxEvents
    /\ \E message \in Messages(active), is_final \in BOOLEAN :
          /\ message.items # <<>> => is_final
          /\ Deliver(message, is_final)
    /\ UNCHANGED <<mainVars, sessionVars>>

\* the runtime executes a function call of the active agent on its plugin
CallPlugin ==
    /\ SessionRunning
    /\ inTurn
    /\ Events < MaxEvents
    /\ \E fn \in PluginsOf(active) : \E args \in ArgsOf(fn) : Execute(active, fn, args)
    /\ UNCHANGED <<mainVars, status, active, inTurn, task_summary, activeTrace, userInputs>>
    /\ UNCHANGED <<is_new_message, chunkLog>>

\* the active agent calls transfer_to_<target>: followed when the edge exists,
\* otherwise IllegalTransitionError and the session keeps its state (it then
\* continues or fails, by policy)
RequestTransfer ==
    /\ SessionRunning
    /\ inTurn
    /\ Events < MaxEvents
    /\ \E target \in TransferTargets :
          IF <<active, target>> \in handoffs
          THEN /\ active' = target
               /\ activeTrace' = Append(activeTrace, target)
               /\ calls' = Append(calls, [agent |-> active, fn |-> "transfer_to",
                                          args |-> <<target>>, ret |-> <<"None">>])
               /\ UNCHANGED <<status, inTurn>>
          ELSE /\ calls' = Append(calls, [agent |-> active, fn |-> "transfer_to",
                                          args |-> <<target>>, ret |-> <<"IllegalTransitionError">>])
               /\ \E policy \in {"continue", "hard-fail"} :
                     /\ status' = IF policy = "continue" THEN status ELSE "failed"
                     /\ inTurn' = IF policy = "continue" THEN inTurn ELSE FALSE
               /\ UNCHANGED <<active, activeTrace>>
    /\ UNCHANGED <<mainVars, task_summary, userInputs, sinkVars>>

\* the active agent calls complete_task(task_summary): the session is Completed
CompleteTask ==
    /\ SessionRunning
    /\ inTurn
    /\ \E summary \in Summaries :
          /\ task_summary' = summary
          /\ calls' = Append(calls, [agent |-> active, fn |-> "complete_task",
                                     args |-> <<summary>>, ret |-> <<"None">>])
    /\ status' = "completed"
    /\ inTurn' = FALSE
    /\ UNCHANGED <<mainVars, active, activeTrace, userInputs, sinkVars>>

\* the active agent's turn ends without a handoff: the session waits for the human
TurnEnds ==
    /\ SessionRunning
    /\ inTurn
    /\ Events < MaxEvents
    /\ inTurn' = FALSE
    /\ UNCHANGED <<mainVars, status, active, task_summary, activeTrace, calls, userInputs, sinkVars>>

\* human_response_function (code.py 173-176): input("User: ") writes the prompt and
\* reads one line; the active agent's next turn starts with the reply
human_response_function ==
    /\ SessionRunning
    /\ ~inTurn
    /\ Events < MaxEvents
    /\ stdout' = Append(stdout, Written(175, print(<<"User: ">>, <<>>)))
    /\ userInputs' = userInputs + 1
    /\ inTurn' = TRUE
    /\ UNCHANGED <<mainVars, status, active, task_summary, activeTrace, calls>>
    /\ UNCHANGED <<is_new_message, chunkLog>>

\* a non-retriable failure of an agent call or of the human input fails the session
SessionFails ==
    /\ SessionRunning
    /\ status' = "failed"
    /\ inTurn' = FALSE
    /\ UNCHANGED <<mainVars, active, task_summary, activeTrace, calls, userInputs, sinkVars>>

Session ==
    \/ AgentStreams
    \/ CallPlugin
    \/ RequestTransfer
    \/ CompleteTask
    \/ TurnEnds
    \/ human_response_function
    \/ SessionFails

Next == Main \/ Session

Spec == Init /\ [][Next]_vars

----------------------------------------------------------------------------
(* The functions of the module called directly, in any order and with any  *)
(* arguments, as the SDK (or a test) may call them once code.py is loaded. *)

KernelFunctions == OrderStatusPlugin \cup OrderRefundPlugin \cup OrderReturnPlugin

KernelFunctionCall ==
    /\ Events < MaxEvents
    /\ \E fn \in KernelFunctions : \E args \in ArgsOf(fn) : Execute("none", fn, args)
    /\ UNCHANGED <<mainVars, status, active, inTurn, task_summary, activeTrace, userInputs>>
    /\ UNCHANGED <<is_new_message, chunkLog>>

CallbackCall ==
    /\ Events < MaxEvents
    /\ \E name \in {"SupportAgent", "OrderStatusAgent"} :
          \E message \in Messages(name), is_final \in BOOLEAN :
              /\ message.items # <<>> => is_final
              /\ Deliver(message, is_final)
    /\ UNCHANGED <<mainVars, sessionVars>>

HumanInputCall ==
    /\ Events < MaxEvents
    /\ stdout' = Append(stdout, Written(175, print(<<"User: ">>, <<>>)))
    /\ userInputs' = userInputs + 1
    /\ UNCHANGED <<mainVars, status, active, inTurn, task_summary, activeTrace, calls>>
    /\ UNCHANGED <<is_new_message, chunkLog>>

ModuleNext == KernelFunctionCall \/ CallbackCall \/ HumanInputCall

ModuleSpec == Init /\ [][ModuleNext]_vars

----------------------------------------------------------------------------
(* Properties of the session and of main, checked under Spec *)

Specialists == {"RefundAgent", "OrderStatusAgent", "OrderReturnAgent"}
FourAgents == {"SupportAgent"} \cup Specialists

Did(step) == \E i \in DOMAIN trace : trace[i] = step

LastCall == calls[Len(calls)]

\* C1: once a session runs, the active agent is one of the four registered
\* agents; the active agent changes from X to Y only along an edge X -> Y of the
\* handoffs built by get_agents; a transfer request whose target has no edge from
\* the current agent leaves the active agent unchanged.
ActiveAgentFollowsHandoffs ==
    /\ [](status # "none" => active \in FourAgents /\ active \in Registry)
    /\ [][ /\ (active # "none" /\ active' # active) => <<active, active'>> \in handoffs
           /\ ( /\ Len(calls') = Len(calls) + 1
                /\ calls'[Len(calls')].fn = "transfer_to"
                /\ <<active, calls'[Len(calls')].args[1]>> \notin handoffs )
              => active' = active ]_vars

\* a handoff was followed after a refused transfer request
C1Witness ==
    /\ Len(activeTrace) >= 2
    /\ \E i \in DOMAIN calls :
          /\ calls[i].fn = "transfer_to"
          /\ calls[i].ret = <<"IllegalTransitionError">>
          /\ status = "running"
          /\ i < Len(calls)

CompleteCalls == SelectSeq(calls, LAMBDA c : c.fn = "complete_task")

RuntimeStoppedOnEveryExit == pc = "done" => runtime # "started"

\* C6: every source and every target of the handoffs is the name of a returned
\* member, and every returned member appears in the handoffs.
HandoffsReferenceMembersOnly ==
    agents # <<>> =>
        /\ \A e \in handoffs : e[1] \in Registry /\ e[2] \in Registry
        /\ \A n \in Registry : \E e \in handoffs : n = e[1] \/ n = e[2]
        /\ Cardinality(Registry) = Len(agents)

\* the orchestration has been built from the four members and six edges
C6Witness ==
    /\ pc = "runtime_start"
    /\ Len(agents) = 4
    /\ Cardinality(handoffs) = 6

FailureFreeOrder ==
    << "credential", "client", "get_agents", "runtime.start", "invoke", "get", "print",
       "stop_when_idle", "client.close", "credential.close" >>

\* C8: while no failure has occurred main's steps are a prefix of: credential,
\* client, get_agents, runtime.start, invoke, get, print, stop_when_idle,
\* client.close, credential.close, all ten once main has ended; the runtime is
\* stopped only after the result was obtained and with no agent turn in
\* progress, and a failure-free main ends with the runtime stopped.
MainStepsInOrder ==
    /\ ~failed => /\ Len(trace) <= Len(FailureFreeOrder)
                  /\ trace = SubSeq(FailureFreeOrder, 1, Len(trace))
    /\ (pc = "done" /\ ~failed) => trace = FailureFreeOrder /\ runtime = "stopped"
    /\ runtime = "stopped" => Did("get") /\ ~inTurn /\ status = "completed"
    /\ Did("stop_when_idle") => runtime = "stopped"

\* a failure-free main has ended
C8Witness ==
    /\ pc = "done"
    /\ ~failed
    /\ runtime = "stopped"
    /\ creds = "closed"
    /\ project_client = "closed"
    /\ Len(activeTrace) >= 2

\* C10: no edge joins two specialists; between two states of a session in which
\* different specialists are active SupportAgent is active; every agent reaches
\* every other agent in at most two handoffs.
HubAndSpoke ==
    /\ \A e \in handoffs : ~(e[1] \in Specialists /\ e[2] \in Specialists)
    /\ \A i, j \in DOMAIN activeTrace :
          ( /\ i < j
            /\ activeTrace[i] \in Specialists
            /\ activeTrace[j] \in Specialists
            /\ activeTrace[i] # activeTrace[j] )
          => \E k \in (i + 1) .. (j - 1) : activeTrace[k] = "SupportAgent"
    /\ agents # <<>> =>
          \A a, b \in Registry :
              a # b => \/ <<a, b>> \in handoffs
                       \/ \E c \in Registry : <<a, c>> \in handoffs /\ <<c, b>> \in handoffs

\* the session went from one specialist to a different one
C10Witness ==
    \E i, j \in DOMAIN activeTrace :
        /\ i < j
        /\ activeTrace[i] \in Specialists
        /\ activeTrace[j] \in Specialists
        /\ activeTrace[i] # activeTrace[j]

----------------------------------------------------------------------------
(* Properties of the callback and of the plugins, checked under ModuleSpec *)

\* what the callback has printed, in order
CallbackOut == SelectSeq(stdout, LAMBDA r : r.line \in {158, 160, 164, 166, 169})

FinalIdx == { i \in DOMAIN chunkLog : chunkLog[i].is_final }

\* the k-th smallest element of a set of indices
Kth(S, k) == CHOOSE i \in S : Cardinality({ j \in S : j <= i }) = k
SegStart(S, k) == IF k = 1 THEN 1 ELSE Kth(S, k - 1) + 1

\* the k-th logical message is chunkLog from SegStart(FinalIdx, k) to
\* Kth(FinalIdx, k); its prints end at the k-th terminator (line 169)

RECURSIVE Concat(_)
\* the contents of a run of chunks, concatenated in order
Concat(chs) ==
    IF chs = <<>> THEN <<>> ELSE Head(chs).message.content \o Concat(Tail(chs))

\* C3: the name prefix is printed exactly on the first chunk after the start or
\* after a final chunk, the line terminator exactly on final chunks, so each
\* logical message gets one prefix and one terminator; is_new_message is TRUE
\* exactly when no chunk has been received since the last final chunk.
PrefixAndTerminatorOncePerMessage ==
    LET out == CallbackOut
        finals == Cardinality(FinalIdx)
        lastFinal == chunkLog # <<>> /\ chunkLog[Len(chunkLog)].is_final
    IN  /\ is_new_message = (chunkLog = <<>> \/ lastFinal)
        /\ \A i \in DOMAIN out : (out[i].line = 158) = (i = 1 \/ out[i - 1].line = 169)
        /\ Len(SelectSeq(out, LAMBDA r : r.line = 169)) = finals
        /\ Len(SelectSeq(out, LAMBDA r : r.line = 158))
              = finals + (IF chunkLog # <<>> /\ ~lastFinal THEN 1 ELSE 0)
        /\ (out # <<>> /\ out[Len(out)].line = 169) = lastFinal

\* a two-chunk message was completed and the next message has begun
C3Witness ==
    /\ Len(chunkLog) = 3
    /\ ~chunkLog[1].is_final
    /\ chunkLog[2].is_final
    /\ ~chunkLog[3].is_final
    /\ ~is_new_message

TextOnly(chs) == \A i \in DOMAIN chs : chs[i].message.items = <<>>

\* C4: for a logical message made of text chunks, what the callback prints
\* between the name prefix and the line terminator is the concatenation of the
\* chunks' contents in order, and the whole line is what one final chunk carrying
\* that concatenation prints.
StreamedEqualsSingleShot ==
    LET allOut == CallbackOut
        finalIdx == FinalIdx
        termIdx == { i \in DOMAIN allOut : allOut[i].line = 169 }
    IN  \A k \in 1 .. Cardinality(finalIdx) :
            LET chs == SubSeq(chunkLog, SegStart(finalIdx, k), Kth(finalIdx, k))
            IN  TextOnly(chs) =>
                  /\ k <= Cardinality(termIdx)
                  /\ LET out == SubSeq(allOut, SegStart(termIdx, k), Kth(termIdx, k))
                         text == Concat(chs)
                         whole == [ name |-> chs[1].message.name,
                                    content |-> text,
                                    items |-> <<>> ]
                     IN  /\ Len(out) >= 2
                         /\ out[1].line = 158
                         /\ out[Len(out)].line = 169
                         /\ Flatten(SubSeq(out, 2, Len(out) - 1)) = text
                         /\ Flatten(out) =
                               Flatten(streaming_agent_response_callback(TRUE, whole, TRUE).out)

\* a message of two non-empty text chunks was completed
C4Witness ==
    /\ Len(chunkLog) >= 2
    /\ ~chunkLog[1].is_final
    /\ chunkLog[2].is_final
    /\ chunkLog[1].message.content = <<"a">>
    /\ chunkLog[2].message.content = <<"b">>
    /\ chunkLog[1].message.name = chunkLog[2].message.name

\* C7: a call of check_order_status changes nothing but the record of the call,
\* and returns the string every earlier call with the same order_id returned,
\* whatever ran in between.
CheckOrderStatusIdempotent ==
    [][ ( /\ Len(calls') = Len(calls) + 1
          /\ calls'[Len(calls')].fn = "check_order_status" )
        => /\ UNCHANGED <<mainVars, status, active, inTurn, task_summary, activeTrace,
                          userInputs, sinkVars>>
           /\ SubSeq(calls', 1, Len(calls)) = calls
           /\ \A i \in DOMAIN calls :
                 ( /\ calls[i].fn = "check_order_status"
                   /\ calls[i].args = calls'[Len(calls')].args )
                 => calls[i].ret = calls'[Len(calls')].ret ]_vars

\* check_order_status ran twice on one order_id with a refund in between
C7Witness ==
    /\ Len(calls) = 3
    /\ calls[1].fn = "check_order_status"
    /\ calls[2].fn = "process_refund"
    /\ calls[3].fn = "check_order_status"
    /\ calls[1].args = calls[3].args
    /\ calls[1].ret = calls[3].ret

\* the log line of one process_refund / process_return invocation
SideEffect(fn, order_id, reason) ==
    IF fn = "process_refund"
    THEN Written(34, <<"Processing refund for order ">> \o order_id \o <<" due to: ">> \o reason \o NL)
    ELSE Written(43, <<"Processing return for order ">> \o order_id \o <<" due to: ">> \o reason \o NL)

\* C9: for process_refund and process_return and every (order_id, reason), the
\* log lines printed for it are as many as its invocations, no other line 34 / 43
\* output exists, and all its invocations returned the same string.
SideEffectOncePerInvocation ==
    /\ \A fn \in {"process_refund", "process_return"} : \A o \in OrderIds, r \in Reasons :
          Len(SelectSeq(stdout, LAMBDA w : w = SideEffect(fn, o, r)))
             = Len(SelectSeq(calls, LAMBDA c : c.fn = fn /\ c.args = <<o, r>>))
    /\ \A i, j \in DOMAIN calls :
          ( /\ calls[i].fn \in {"process_refund", "process_return"}
            /\ calls[i].fn = calls[j].fn
            /\ calls[i].args = calls[j].args )
          => calls[i].ret = calls[j].ret
    /\ Len(SelectSeq(stdout, LAMBDA w : w.line \in {34, 43}))
          = Len(SelectSeq(calls, LAMBDA c : c.fn \in {"process_refund", "process_return"}))

\* the same refund was processed three times and logged three times
C9Witness ==
    /\ Len(calls) = 3
    /\ \A i \in DOMAIN calls : calls[i].fn = "process_refund" /\ calls[i].args = calls[1].args
    /\ Len(SelectSeq(stdout, LAMBDA w : w.line = 34)) = 3

====
